---- MODULE Spec2Model ----
(***************************************************************************)
(* FavouriteAnything: the three plugin files of the repository.            *)
(*   "index"   src/src/index.ts             action-sheet plugin            *)
(*   "overlay" src/unnamed/part_000:1-339   overlay / embed plugin         *)
(*   "actions" src/unnamed/part_000:341-637 action-sheet plugin with       *)
(*                                          module caches                  *)
(* The host loads one of them.  JavaScript values are tagged records, so   *)
(* that ||, ?., Array.isArray, typeof and property access on null are      *)
(* computed as the engine computes them.  A JavaScript string is a         *)
(* sequence of characters.                                                 *)
(***************************************************************************)
EXTENDS Integers, Sequences, FiniteSets, TLC

VARIABLES
    loaded,      \* which plugin file the host has loaded
    cleanups,    \* index.ts:222 / part_000:263  `let cleanups = []`
    unpatch,     \* part_000:514  `let unpatch = null`
    favCache,    \* part_000:360  `_favouritesAPI`
    actCache,    \* part_000:361  `_messageActions`
    patches,     \* host side: every patch ever installed, by handle number
    disables,    \* number of disable calls made so far (module generation)
    enables,     \* number of enable calls made so far
    lastOp,      \* the previous lifecycle call: "none", "enable" or "disable"
    ev           \* the most recent event: its inputs and what it did

vars == <<loaded, cleanups, unpatch, favCache, actCache, patches, disables, enables, lastOp, ev>>

lifecycleVars == <<cleanups, unpatch, favCache, actCache, patches, disables, enables, lastOp>>

-----------------------------------------------------------------------------
(* Bounds of the model *)

MaxAtt == 2

MaxEmb == 2

MaxEnables == 2

MaxDisables == 2

\* taps on one accessory while it stays on screen
MaxTaps == 3

-----------------------------------------------------------------------------
(* JavaScript values *)

Undef == [t |-> "undef"]

Null == [t |-> "null"]

S(s) == [t |-> "str", s |-> s]

N(n) == [t |-> "num", n |-> n]

B(b) == [t |-> "bool", b |-> b]

Obj(f) == [t |-> "obj", f |-> f]

Arr(a) == [t |-> "arr", a |-> a]

\* a function value: the closure of a favourite item, with what it captured
Fn(c) == [t |-> "fn", c |-> c]

EmptyStr == S(<<>>)

\* ToBoolean
Truthy(v) ==
    CASE v.t = "undef" -> FALSE
      [] v.t = "null" -> FALSE
      [] v.t = "str" -> v.s # <<>>
      [] v.t = "num" -> v.n # 0
      [] v.t = "bool" -> v.b
      [] OTHER -> TRUE

\* a || b
Or(a, b) == IF Truthy(a) THEN a ELSE b

\* a && b
And(a, b) == IF Truthy(a) THEN b ELSE a

\* o.k throws a TypeError exactly when o is null or undefined
Nullish(v) == v.t \in {"undef", "null"}

\* o.k for a non-nullish o: the property, or undefined
Get(o, k) == IF o.t = "obj" /\ k \in DOMAIN o.f THEN o.f[k] ELSE Undef

\* o?.k
OptGet(o, k) == IF Nullish(o) THEN Undef ELSE Get(o, k)

IsArray(v) == v.t = "arr"

IsString(v) == v.t = "str"

Uppers == <<"A","B","C","D","E","F","G","H","I","J","K","L","M","N","O","P","Q","R","S","T","U","V","W","X","Y","Z">>

Lowers == <<"a","b","c","d","e","f","g","h","i","j","k","l","m","n","o","p","q","r","s","t","u","v","w","x","y","z">>

LowerChar(c) ==
    IF \E i \in 1..Len(Uppers) : Uppers[i] = c
    THEN Lowers[CHOOSE i \in 1..Len(Uppers) : Uppers[i] = c]
    ELSE c

\* String.prototype.toLowerCase on the characters of a string
toLowerCase(s) == [i \in 1..Len(s) |-> LowerChar(s[i])]

\* String.prototype.startsWith
startsWith(s, p) == Len(s) >= Len(p) /\ SubSeq(s, 1, Len(p)) = p

\* s.split(";")[0]: the characters before the first ';'
splitFirst(s) ==
    IF \E i \in 1..Len(s) : s[i] = ";"
    THEN SubSeq(s, 1, (CHOOSE i \in 1..Len(s) : s[i] = ";" /\ \A j \in 1..(i-1) : s[j] # ";") - 1)
    ELSE s

ImagePrefix == <<"i","m","a","g","e","/">>

VideoPrefix == <<"v","i","d","e","o","/">>

Gifv == S(<<"g","i","f","v">>)

\* the result of a call: a value, or a thrown exception
Ret(v) == [threw |-> FALSE, val |-> v]

Threw == [threw |-> TRUE]

-----------------------------------------------------------------------------
(* index.ts: extractMedia *)

\* concatenation of a sequence of sequences (the pushes of a loop, in order)
RECURSIVE Flatten(_)
Flatten(ss) == IF ss = <<>> THEN <<>> ELSE Head(ss) \o Flatten(Tail(ss))

\* index.ts:116  att.proxy_url || att.proxyURL || att.url
ProxyOf(o) == Or(Or(Get(o, "proxy_url"), Get(o, "proxyURL")), Get(o, "url"))

\* index.ts:111-126, one iteration: the descriptors it pushes, or a TypeError
AttachmentMedia_index(att) ==
    IF Nullish(att) THEN Threw
    ELSE LET raw == Or(Or(Get(att, "content_type"), Get(att, "contentType")), EmptyStr) IN
         IF ~IsString(raw) THEN Threw
         ELSE LET contentType == toLowerCase(raw.s) IN
              IF startsWith(contentType, ImagePrefix)
              THEN Ret(<<[url |-> Get(att, "url"), proxyUrl |-> ProxyOf(att), isVideo |-> FALSE]>>)
              ELSE IF startsWith(contentType, VideoPrefix)
              THEN Ret(<<[url |-> Get(att, "url"), proxyUrl |-> ProxyOf(att), isVideo |-> TRUE]>>)
              ELSE Ret(<<>>)

\* index.ts:131-156, one iteration
EmbedMedia_index(embed) ==
    IF Nullish(embed) THEN Threw
    ELSE LET video == Get(embed, "video")
             image == Get(embed, "image")
             isGifv == Get(embed, "type") = Gifv
             gifvPart == IF isGifv /\ Truthy(video)
                         THEN <<[url |-> Or(Get(embed, "url"), Get(video, "url")),
                                 proxyUrl |-> ProxyOf(video), isVideo |-> TRUE]>>
                         ELSE <<>>
             imagePart == IF Truthy(image)
                          THEN <<[url |-> Get(image, "url"), proxyUrl |-> ProxyOf(image),
                                  isVideo |-> FALSE]>>
                          ELSE <<>>
             videoPart == IF Truthy(video) /\ ~isGifv
                          THEN <<[url |-> Get(video, "url"), proxyUrl |-> ProxyOf(video),
                                  isVideo |-> TRUE]>>
                          ELSE <<>>
         IN Ret(gifvPart \o imagePart \o videoPart)

\* a for-of loop that pushes: it throws if an iteration throws
PushLoop(rs) ==
    IF \E i \in 1..Len(rs) : rs[i].threw THEN Threw
    ELSE Ret(Flatten([i \in 1..Len(rs) |-> rs[i].val]))

\* index.ts:106-160
extractMedia_index(message) ==
    LET atts == OptGet(message, "attachments")
        embs == OptGet(message, "embeds")
        fromAtts == IF IsArray(atts)
                    THEN PushLoop([i \in 1..Len(atts.a) |-> AttachmentMedia_index(atts.a[i])])
                    ELSE Ret(<<>>)
        fromEmbs == IF IsArray(embs)
                    THEN PushLoop([i \in 1..Len(embs.a) |-> EmbedMedia_index(embs.a[i])])
                    ELSE Ret(<<>>)
    IN IF fromAtts.threw \/ fromEmbs.threw THEN Threw
       ELSE Ret(fromAtts.val \o fromEmbs.val)

-----------------------------------------------------------------------------
(* part_000 (action-sheet plugin): extractMedia *)

\* part_000:414-425, one iteration: <<descriptor>> when it returns, <<>> when
\* the loop goes on, or a TypeError
AttachmentMedia_actions(att) ==
    IF Nullish(att) THEN Threw
    ELSE LET raw == Or(Get(att, "content_type"), EmptyStr) IN
         IF ~IsString(raw) THEN Threw
         ELSE LET ct == splitFirst(raw.s) IN
              IF startsWith(ct, ImagePrefix) \/ startsWith(ct, VideoPrefix)
              THEN Ret(<<[url |-> Get(att, "url"),
                          proxyURL |-> Or(Get(att, "proxy_url"), Get(att, "url")),
                          width |-> Or(Get(att, "width"), N(0)),
                          height |-> Or(Get(att, "height"), N(0)),
                          isVideo |-> startsWith(ct, VideoPrefix)]>>)
              ELSE Ret(<<>>)

\* part_000:436-438 / 445-447 / 454-456
ContentDescriptor(content, url, proxyURL, isVideo) ==
    [url |-> url, proxyURL |-> proxyURL,
     width |-> Or(Get(content, "width"), N(0)),
     height |-> Or(Get(content, "height"), N(0)),
     isVideo |-> isVideo]

\* part_000:430-458, one iteration
EmbedMedia_actions(embed) ==
    IF Nullish(embed) THEN Threw
    ELSE LET video == Get(embed, "video")
             image == Get(embed, "image")
         IN IF Get(embed, "type") = Gifv /\ Truthy(video)
            THEN Ret(<<ContentDescriptor(video, Or(Get(embed, "url"), Get(video, "url")),
                          Or(Or(Get(video, "proxy_url"), Get(video, "url")), Get(embed, "url")),
                          TRUE)>>)
            ELSE IF Truthy(video)
            THEN Ret(<<ContentDescriptor(video, Get(video, "url"),
                          Or(Get(video, "proxy_url"), Get(video, "url")), TRUE)>>)
            ELSE IF Truthy(image)
            THEN Ret(<<ContentDescriptor(image, Get(image, "url"),
                          Or(Get(image, "proxy_url"), Get(image, "url")), FALSE)>>)
            ELSE Ret(<<>>)

\* a for-of loop that returns from its first hit: the index of the first
\* iteration that throws or returns, 0 when every iteration goes on
FirstHit(rs) ==
    IF \E i \in 1..Len(rs) : rs[i] # Ret(<<>>)
    THEN CHOOSE i \in 1..Len(rs) : rs[i] # Ret(<<>>) /\ \A j \in 1..(i-1) : rs[j] = Ret(<<>>)
    ELSE 0

\* part_000:409-463: the first descriptor, null, or a TypeError
extractMedia_actions(message) ==
    IF ~Truthy(message) THEN Ret(Null)
    ELSE LET atts == Get(message, "attachments")
             embs == Get(message, "embeds")
             ra == IF IsArray(atts)
                   THEN [i \in 1..Len(atts.a) |-> AttachmentMedia_actions(atts.a[i])]
                   ELSE <<>>
             re == IF IsArray(embs)
                   THEN [i \in 1..Len(embs.a) |-> EmbedMedia_actions(embs.a[i])]
                   ELSE <<>>
             ha == FirstHit(ra)
             he == FirstHit(re)
         IN IF ha # 0 THEN (IF ra[ha].threw THEN Threw ELSE Ret(ra[ha].val[1]))
            ELSE IF he # 0 THEN (IF re[he].threw THEN Threw ELSE Ret(re[he].val[1]))
            ELSE Ret(Null)

-----------------------------------------------------------------------------
(* Inputs: messages of the host schema, and malformed message-like values *)

SeqsUpTo(X, n) == UNION {[1..k -> X] : k \in 0..n}

U(name) == S(<<name>>)

CT_png == S(ImagePrefix \o <<"p","n","g">>)

CT_pngParam == S(ImagePrefix \o <<"p","n","g",";"," ","c","h","a","r","s","e","t","=","x">>)

CT_pngMixed == S(<<"I","m","a","g","e","/","p","n","g",";"," ","c","h","a","r","s","e","t","=","x">>)

CT_pngUpper == S(<<"I","M","A","G","E","/","P","N","G">>)

CT_mp4 == S(VideoPrefix \o <<"m","p","4">>)

CT_mp4Upper == S(<<"V","I","D","E","O","/","M","P","4">>)

CT_text == S(<<"t","e","x","t","/","p","l","a","i","n">>)

\* not an image: the prefix is cut by the parameter separator
CT_cut == S(<<"i","m","a","g",";","e","/">>)

A_png == Obj([url |-> U("a.png"), proxy_url |-> U("pa.png"), content_type |-> CT_png,
              width |-> N(100), height |-> N(50)])

A_param == Obj([url |-> U("b.png"), content_type |-> CT_pngParam,
                width |-> N(100), height |-> N(50)])

A_upper == Obj([url |-> U("c.png"), proxy_url |-> U("pc.png"), content_type |-> CT_pngUpper,
                width |-> N(10), height |-> N(10)])

A_mp4 == Obj([url |-> U("m.mp4"), proxy_url |-> U("pm.mp4"), content_type |-> CT_mp4,
              width |-> N(64), height |-> N(48)])

A_text == Obj([url |-> U("t.txt"), proxy_url |-> U("pt.txt"), content_type |-> CT_text])

HostAttachments == {A_png, A_param, A_upper, A_mp4, A_text}

V_gif == Obj([url |-> U("g.mp4"), proxy_url |-> U("pg.mp4"), width |-> N(20), height |-> N(20)])

V_vid == Obj([url |-> U("v.mp4"), proxy_url |-> U("pv.mp4"), width |-> N(32), height |-> N(24)])

I_img == Obj([url |-> U("i.png"), proxy_url |-> U("pi.png"), width |-> N(16), height |-> N(16)])

E_gifv == Obj([type |-> Gifv, url |-> U("tenor"), video |-> V_gif, image |-> I_img])

E_both == Obj([type |-> U("rich"), url |-> U("page"), image |-> I_img, video |-> V_vid])

E_image == Obj([type |-> U("image"), image |-> I_img])

E_video == Obj([type |-> U("video"), video |-> V_vid])

E_link == Obj([type |-> U("link"), url |-> U("page")])

HostEmbeds == {E_gifv, E_both, E_image, E_video, E_link}

MessageOf(as, es) == Obj([attachments |-> Arr(as), embeds |-> Arr(es)])

\* what the host passes: lists of well-formed entries, or no lists, or no message
HostMessages ==
    {MessageOf(as, es) : as \in SeqsUpTo(HostAttachments, MaxAtt), es \in SeqsUpTo(HostEmbeds, MaxEmb)}
      \cup {Undef, Null, Obj(<<>>), Obj([attachments |-> Arr(<<A_text>>)]), Obj([embeds |-> Arr(<<E_link>>)])}

A_mp4Upper == Obj([url |-> U("M.MP4"), content_type |-> CT_mp4Upper])

A_mixed == Obj([url |-> U("x.png"), content_type |-> CT_pngMixed])

A_camel == Obj([url |-> U("d.png"), contentType |-> CT_png])

A_cut == Obj([url |-> U("e.png"), content_type |-> CT_cut])

A_numType == Obj([url |-> U("f.png"), content_type |-> N(5)])

A_bare == Obj([content_type |-> CT_png])

AnyAttachments == HostAttachments \cup {A_mp4Upper, A_mixed, A_camel, A_cut, A_numType, A_bare, Obj(<<>>), Null}

E_bare == Obj([type |-> Gifv, video |-> Obj(<<>>)])

AnyEmbeds == HostEmbeds \cup {E_bare, Obj(<<>>), Null}

\* every message-like input the extractor is applied to
AnyMessages ==
    {Obj([attachments |-> Arr(as)]) : as \in SeqsUpTo(AnyAttachments, MaxAtt)}
      \cup {Obj([embeds |-> Arr(es)]) : es \in SeqsUpTo(AnyEmbeds, MaxEmb)}
      \cup {Undef, Null, Obj(<<>>), U("text"), N(7),
            Obj([attachments |-> U("a.png"), embeds |-> Obj(<<>>)]),
            Obj([attachments |-> Null, embeds |-> N(1)]),
            MessageOf(<<A_text>>, <<Null>>), MessageOf(<<A_png>>, <<Null>>)}

-----------------------------------------------------------------------------
(* State after construction *)

NoEvent == [kind |-> "none"]

Plugins == {"index", "overlay", "actions"}

InitLifecycle ==
    /\ cleanups = <<>>
    /\ unpatch = Null
    /\ favCache = Null
    /\ actCache = Null
    /\ patches = <<>>
    /\ disables = 0
    /\ enables = 0
    /\ lastOp = "none"

Init ==
    /\ loaded \in Plugins
    /\ InitLifecycle
    /\ ev = NoEvent

-----------------------------------------------------------------------------
(* The extractor applied to an input *)

extractMedia(plugin, message) ==
    IF plugin = "index" THEN extractMedia_index(message) ELSE extractMedia_actions(message)

InitExtract ==
    /\ loaded \in {"index", "actions"}
    /\ InitLifecycle
    /\ ev \in {[kind |-> "input", msg |-> m] : m \in AnyMessages}

ApplyExtract ==
    /\ ev.kind = "input"
    /\ ev' = [kind |-> "extract", msg |-> ev.msg, out |-> extractMedia(loaded, ev.msg)]
    /\ UNCHANGED <<loaded, lifecycleVars>>

NextExtract == ApplyExtract

SpecExtract == InitExtract /\ [][NextExtract]_vars

-----------------------------------------------------------------------------
(* The after-hooks.  A hook's result: threw, or val (the value it returns to *)
(* the host) and added (the favourite items or accessories it put there).    *)

HookRet(v, added) == [threw |-> FALSE, val |-> v, added |-> added]

HookThrew == [threw |-> TRUE, added |-> <<>>]

FavouriteLabel == U("Favourite")

\* arr.push(item)
Push(arr, item) == Arr(Append(arr.a, item))

\* o.k = v on an object that has the property k
SetField(o, k, v) == Obj([o.f EXCEPT ![k] = v])

\* index.ts:261-291 without the early return of line 267-270
afterHook_index_alwaysPush(arg0, result) ==
    LET media == extractMedia_index(arg0) IN
    IF media.threw THEN HookThrew
    ELSE LET favouriteAction == Obj([label |-> FavouriteLabel, onPress |-> Fn(media.val)]) IN
         IF IsArray(result)
         THEN HookRet(Push(result, favouriteAction), <<favouriteAction>>)
         ELSE HookRet(result, <<>>)

\* index.ts:261-291
afterHook_index(arg0, result) ==
    LET media == extractMedia_index(arg0) IN
    IF media.threw THEN HookThrew
    ELSE IF Len(media.val) = 0 THEN HookRet(result, <<>>)
    ELSE LET favouriteAction == Obj([label |-> FavouriteLabel, onPress |-> Fn(media.val)]) IN
         IF IsArray(result)
         THEN HookRet(Push(result, favouriteAction), <<favouriteAction>>)
         ELSE IF Truthy(result) /\ IsArray(Get(result, "items"))
         THEN HookRet(SetField(result, "items", Push(Get(result, "items"), favouriteAction)),
                      <<favouriteAction>>)
         ELSE IF Truthy(result) /\ IsArray(Get(result, "actions"))
         THEN HookRet(SetField(result, "actions", Push(Get(result, "actions"), favouriteAction)),
                      <<favouriteAction>>)
         ELSE HookRet(result, <<>>)

\* part_000:472-508: the item; its onPress closes over media
buildFavouriteAction(media) ==
    Obj([key |-> U("favouriteAnything"), label |-> FavouriteLabel, onPress |-> Fn(media)])

\* part_000:600: child && child.props && Array.isArray(child.props.options)
ChildHasOptions(child) ==
    Truthy(child) /\ Truthy(Get(child, "props")) /\ IsArray(Get(Get(child, "props"), "options"))

\* part_000:599-604: the first child that holds an options array, 0 if none
FirstChildWithOptions(children) ==
    IF \E i \in 1..Len(children) : ChildHasOptions(children[i])
    THEN CHOOSE i \in 1..Len(children) :
             ChildHasOptions(children[i]) /\ \A j \in 1..(i-1) : ~ChildHasOptions(children[j])
    ELSE 0

\* part_000:565-615
afterActions(arg0, ret) ==
    LET message == Or(Or(And(arg0, Get(arg0, "message")), arg0), Null)
        media == extractMedia_actions(message)
    IN
    IF media.threw THEN HookThrew
    ELSE IF media.val = Null THEN HookRet(ret, <<>>)
    ELSE LET item == buildFavouriteAction(media.val)
             props == Get(ret, "props")
             children == Get(props, "children")
         IN
         IF IsArray(ret) THEN HookRet(Push(ret, item), <<item>>)
         ELSE IF Truthy(ret) /\ Truthy(props) /\ IsArray(Get(props, "options"))
         THEN HookRet(SetField(ret, "props", SetField(props, "options", Push(Get(props, "options"), item))),
                      <<item>>)
         ELSE IF Truthy(ret) /\ Truthy(props) /\ IsArray(children)
                  /\ FirstChildWithOptions(children.a) # 0
         THEN LET i == FirstChildWithOptions(children.a)
                  child == children.a[i]
                  cprops == Get(child, "props")
                  child2 == SetField(child, "props",
                                SetField(cprops, "options", Push(Get(cprops, "options"), item)))
              IN HookRet(SetField(ret, "props",
                             SetField(props, "children", Arr([children.a EXCEPT ![i] = child2]))),
                         <<item>>)
         ELSE HookRet(ret, <<>>)

\* part_000:200-211 / 243-254: <View>{result}<FavouriteAccessory .../></View>
Wrap(result, url, proxyUrl, width, height, video) ==
    LET accessory == [url |-> url, proxyUrl |-> proxyUrl, width |-> width,
                      height |-> height, video |-> video]
    IN HookRet(Obj([type |-> U("View"), children |-> Arr(<<result, Obj([type |-> U("FavouriteAccessory")])>>)]),
               <<accessory>>)

\* part_000:185-212
afterMediaRender(arg0, result) ==
    LET props == Or(arg0, Obj(<<>>))
        src == Or(Or(Or(Get(props, "src"), Get(props, "proxyURL")), Get(props, "url")), EmptyStr)
        url == Or(Get(props, "url"), src)
        width == Or(Get(props, "width"), N(0))
        height == Or(Get(props, "height"), N(0))
        isVideo == Truthy(Get(props, "video")) \/ Truthy(Get(props, "isVideo"))
    IN IF ~Truthy(src) /\ ~Truthy(url) THEN HookRet(result, <<>>)
       ELSE Wrap(result, url, src, width, height, isVideo)

\* part_000:239 as if the flag came from the content picked at line 231
EmbedIsVideo_fromContent(embed) == ~Truthy(Get(embed, "image"))

\* part_000:239  const isVideo = !!embed.video
EmbedIsVideo(embed) == Truthy(Get(embed, "video"))

\* part_000:229-255
afterEmbedRender(arg0, result) ==
    LET embed == Or(Or(OptGet(arg0, "embed"), arg0), Obj(<<>>))
        content == Or(Get(embed, "image"), Get(embed, "video"))
        url == Or(Or(And(B(Get(embed, "type") = Gifv), Get(embed, "url")), Get(content, "url")), EmptyStr)
        proxyUrl == Or(Get(content, "proxyURL"), url)
        width == Or(Get(content, "width"), N(0))
        height == Or(Get(content, "height"), N(0))
        isVideo == EmbedIsVideo(embed)
    IN IF ~Truthy(content) THEN HookRet(result, <<>>)
       ELSE IF ~Truthy(url) \/ ~Truthy(width) \/ ~Truthy(height) THEN HookRet(result, <<>>)
       ELSE Wrap(result, url, proxyUrl, width, height, isVideo)

\* part_000:124  if (!url || !width || !height) return null
AccessoryRenders(a) == Truthy(a.url) /\ Truthy(a.width) /\ Truthy(a.height)

-----------------------------------------------------------------------------
(* The host's module index and its favourites API, as the tap handlers see  *)
(* them.  A module reference carries gen, the number of disable calls made  *)
(* when it was resolved.                                                    *)

FormatImage == 1

FormatVideo == 2

Mod(f, gen) == [t |-> "obj", f |-> f, gen |-> gen]

\* what a lookup can do: return a module, return undefined, or raise
LookupOutcomes == {"hit", "undefined", "raises"}

\* the module a lookup hits: with addToFavorites a function, with a property
\* of that name that is no function, or without the property
ModuleShapes == {"fn", "nofn", "bare"}

FavModule(shape, gen) ==
    CASE shape = "fn" -> Mod([addToFavorites |-> Fn("addToFavorites")], gen)
      [] shape = "nofn" -> Mod([addToFavorites |-> B(TRUE)], gen)
      [] OTHER -> Mod(<<>>, gen)

\* findByProps and its kin: a value, or an exception
Lookup(outcome, mod) ==
    CASE outcome = "hit" -> Ret(mod)
      [] outcome = "undefined" -> Ret(Undef)
      [] OTHER -> Threw

IsFunction(v) == v.t = "fn"

FavCall(mod, payload) == [fn |-> "addToFavorites", arg |-> payload, gen |-> mod.gen]

ShareCall(url) == [fn |-> "share", message |-> url]

ToastCall(text) == [fn |-> "toast", text |-> text]

\* a tap's result: the host calls made, in order; what became of the host's
\* favourites call; whether an exception left the handler
TapResult(calls, api, threw) == [calls |-> calls, api |-> api, threw |-> threw]

\* index.ts:84-90
findFavoritesModule(outcome, shape, gen) ==
    LET r == Lookup(outcome, FavModule(shape, gen)) IN IF r.threw THEN Null ELSE r.val

\* index.ts:210-216
showToast_index(os, text) == IF os = "android" THEN <<ToastCall(text)>> ELSE <<>>

\* index.ts:173-205 without the return of line 189: the share flow also
\* after a favourites call that returned
favouriteMedia_noReturn(mediaList, env, gen) ==
    IF Len(mediaList) = 0 THEN TapResult(<<>>, "none", FALSE)
    ELSE LET target == mediaList[1]
             favMod == findFavoritesModule(env.fav, env.shape, gen)
             usable == Truthy(favMod) /\ IsFunction(Get(favMod, "addToFavorites"))
             payload == [src |-> Or(target.proxyUrl, target.url), url |-> target.url,
                         format |-> IF target.isVideo THEN FormatVideo ELSE FormatImage]
             share == <<ShareCall(target.url)>>
         IN IF usable
            THEN TapResult(<<FavCall(favMod, payload)>> \o share,
                           IF env.call = "ok" THEN "ok" ELSE "threw", FALSE)
            ELSE TapResult(share, "unavailable", FALSE)

\* index.ts:173-205.  env: fav, shape (the lookup), call ("ok"/"throws": what
\* addToFavorites does), os.  Share.open is awaited inside try/catch, so its
\* rejection changes nothing here.
favouriteMedia(mediaList, env, gen) ==
    IF Len(mediaList) = 0 THEN TapResult(<<>>, "none", FALSE)
    ELSE LET target == mediaList[1]
             favMod == findFavoritesModule(env.fav, env.shape, gen)
             usable == Truthy(favMod) /\ IsFunction(Get(favMod, "addToFavorites"))
             payload == [src |-> Or(target.proxyUrl, target.url), url |-> target.url,
                         format |-> IF target.isVideo THEN FormatVideo ELSE FormatImage]
             share == <<ShareCall(target.url)>>
         IN IF usable /\ env.call = "ok"
            THEN TapResult(<<FavCall(favMod, payload)>> \o showToast_index(env.os, "Added to favourites"),
                           "ok", FALSE)
            ELSE IF usable
            THEN TapResult(<<FavCall(favMod, payload)>> \o share, "threw", FALSE)
            ELSE TapResult(share, "unavailable", FALSE)

\* part_000:368-376: <<the api returned, the cache afterwards>>
getFavouritesAPI(cache, outcome, shape, gen) ==
    IF Truthy(cache) THEN <<cache, cache>>
    ELSE LET r == Lookup(outcome, FavModule(shape, gen)) IN
         IF r.threw THEN <<cache, cache>> ELSE <<r.val, r.val>>

\* part_000:489-492 / 495-498 / 501-504: findByProps("showToast") || {} and
\* the toast; env.toast is what that lookup does
ToastOrThrow(calls, api, env, text) ==
    CASE env.toast = "hit" -> TapResult(calls \o <<ToastCall(text)>>, api, FALSE)
      [] env.toast = "undefined" -> TapResult(calls, api, FALSE)
      [] OTHER -> TapResult(calls, api, TRUE)

\* part_000:476-506.  A lookup of showToast that raises inside the try block
\* lands in the catch block, which looks it up again.
onPress_actions(media, api, env) ==
    LET usable == Truthy(api) /\ IsFunction(Get(api, "addToFavorites"))
        payload == [src |-> media.proxyURL, url |-> media.url, width |-> media.width,
                    height |-> media.height,
                    format |-> IF media.isVideo THEN FormatVideo ELSE FormatImage]
    IN IF usable /\ env.call = "ok"
       THEN ToastOrThrow(<<FavCall(api, payload)>>, "ok", env, "Added to Favourites")
       ELSE IF usable
       THEN ToastOrThrow(<<FavCall(api, payload)>>, "threw", env, "Failed to favourite")
       ELSE ToastOrThrow(<<>>, "unavailable", env, "Favourites API unavailable")

\* part_000:32-45.  env.byName, env.byDisplayName, env.byProps are what the
\* three lookups do; the first two share one try block.
findFavoriteButtonComponent(env, gen) ==
    LET m == FavModule(env.shape, gen)
        a == Lookup(env.byName, m)
        b == Lookup(env.byDisplayName, m)
        first == IF a.threw THEN Null
                 ELSE IF Truthy(a.val) THEN a.val
                 ELSE IF b.threw THEN Null
                 ELSE b.val
        c == Lookup(env.byProps, m)
    IN IF Truthy(first) THEN first
       ELSE IF c.threw THEN first ELSE c.val

\* part_000:131-151 as if setFavourited (line 150) stood inside the try block
\* after the call, and so were skipped when addToFavorites throws
handlePress_flipOnSuccess(a, favourited, env, gen) ==
    LET FavouriteButton == findFavoriteButtonComponent(env, gen)
        tries == Truthy(FavouriteButton) /\ Truthy(Get(FavouriteButton, "addToFavorites"))
        callable == tries /\ IsFunction(Get(FavouriteButton, "addToFavorites"))
        payload == [src |-> Or(a.proxyUrl, a.url), url |-> a.url,
                    format |-> IF a.video THEN FormatVideo ELSE FormatImage,
                    width |-> a.width, height |-> a.height]
    IN IF callable /\ env.call = "ok"
       THEN <<TapResult(<<FavCall(FavouriteButton, payload)>>, "ok", FALSE), ~favourited>>
       ELSE IF callable
       THEN <<TapResult(<<FavCall(FavouriteButton, payload)>>, "threw", FALSE), favourited>>
       ELSE <<TapResult(<<>>, "unavailable", FALSE), ~favourited>>

\* part_000:131-151: the tap's result and the favourited flag afterwards.
\* Calling a property that is no function throws a TypeError inside the try.
handlePress(a, favourited, env, gen) ==
    LET FavouriteButton == findFavoriteButtonComponent(env, gen)
        tries == Truthy(FavouriteButton) /\ Truthy(Get(FavouriteButton, "addToFavorites"))
        callable == tries /\ IsFunction(Get(FavouriteButton, "addToFavorites"))
        payload == [src |-> Or(a.proxyUrl, a.url), url |-> a.url,
                    format |-> IF a.video THEN FormatVideo ELSE FormatImage,
                    width |-> a.width, height |-> a.height]
        res == IF callable /\ env.call = "ok"
               THEN TapResult(<<FavCall(FavouriteButton, payload)>>, "ok", FALSE)
               ELSE IF callable
               THEN TapResult(<<FavCall(FavouriteButton, payload)>>, "threw", FALSE)
               ELSE TapResult(<<>>, "unavailable", FALSE)
    IN <<res, ~favourited>>

-----------------------------------------------------------------------------
(* Patches and unpatch handles.  patches[i] is the patch whose unpatch       *)
(* handle is Fn(i): the surface it wraps, whether the host still has it      *)
(* installed, and how many times its handle has been invoked.                *)

NewPatch(surface) == [surface |-> surface, installed |-> TRUE, invoked |-> 0]

\* patcher.after: the patches afterwards; the handle returned is Fn(Len + 1)
PatcherAfter(ps, surface) == Append(ps, NewPatch(surface))

HandleIds(handles) == {handles[i].c : i \in 1..Len(handles)}

\* every handle of `ids` is invoked once; those of `throwers` throw and leave
\* their patch installed, the others remove it
InvokeHandles(ps, ids, throwers) ==
    [i \in 1..Len(ps) |->
        IF i \in ids
        THEN [ps[i] EXCEPT !.invoked = @ + 1,
                           !.installed = IF i \in throwers THEN @ ELSE FALSE]
        ELSE ps[i]]

Installed(surface) == \E i \in 1..Len(patches) : patches[i].installed /\ patches[i].surface = surface

EnableEvent(stored, gens) ==
    [kind |-> "enable", threw |-> FALSE, stored |-> stored, gens |-> gens, prev |-> lastOp]

DisableEvent(threw, invoked, throwers) ==
    [kind |-> "disable", threw |-> threw, invoked |-> invoked, throwers |-> throwers, prev |-> lastOp]

\* every enable call, whatever it patches
Enabling ==
    /\ enables < MaxEnables
    /\ enables' = enables + 1
    /\ lastOp' = "enable"
    /\ UNCHANGED <<loaded, disables>>

\* every disable call
Disabling ==
    /\ disables < MaxDisables
    /\ disables' = disables + 1
    /\ lastOp' = "disable"
    /\ UNCHANGED <<loaded, enables>>

-----------------------------------------------------------------------------
(* index.ts: lifecycle *)

Candidates_index == <<"getMessageActions", "messageActions", "buildMessageActions", "MessageActions">>

\* index.ts:61-78: the number of the first candidate whose lookup returns a
\* module, 0 when none does; outs[i] is what the lookup of candidate i does
findMessageActionsModule(outs) ==
    IF \E i \in 1..Len(outs) : outs[i] = "hit"
    THEN CHOOSE i \in 1..Len(outs) : outs[i] = "hit" /\ \A j \in 1..(i-1) : outs[j] # "hit"
    ELSE 0

\* index.ts:232-295
OnEnable_index ==
    /\ loaded = "index"
    /\ Enabling
    /\ \E found \in {findMessageActionsModule(outs) : outs \in [1..Len(Candidates_index) -> LookupOutcomes]} :
         IF found = 0
         THEN /\ ev' = EnableEvent(<<>>, {})
              /\ UNCHANGED <<cleanups, patches>>
         ELSE /\ patches' = PatcherAfter(patches, "actionSheet")
              /\ cleanups' = Append(cleanups, Fn(Len(patches) + 1))
              /\ ev' = EnableEvent(<<Len(patches) + 1>>, {disables})
    /\ UNCHANGED <<unpatch, favCache, actCache>>

\* index.ts:297-303 and part_000:328-338: cleanups.forEach with try/catch
\* around each call, then cleanups = []
RunCleanups ==
    \E throwers \in SUBSET HandleIds(cleanups) :
        /\ patches' = InvokeHandles(patches, HandleIds(cleanups), throwers)
        /\ cleanups' = <<>>
        /\ ev' = DisableEvent(FALSE, [i \in 1..Len(cleanups) |-> cleanups[i].c], throwers)

\* index.ts:297-303
OnDisable_index ==
    /\ loaded = "index"
    /\ Disabling
    /\ RunCleanups
    /\ UNCHANGED <<unpatch, favCache, actCache>>

-----------------------------------------------------------------------------
(* part_000 (overlay / embed plugin): lifecycle *)

\* part_000:51-57 and 295-297: what enable finds of the media overlay:
\* "direct" (mod.renderOverlayContent), "default" (mod.default.renderOverlayContent),
\* "notarget" (a module without either), "none" (no module: undefined or a raise)
OverlayFinds == {"direct", "default", "notarget", "none"}

\* part_000:63-74 and 226-227
EmbedFinds == {"render", "default", "norender", "none"}

\* part_000:281-290: require returns the patcher, returns nothing, or throws
PatcherLoads == {"ok", "falsy", "throws"}

\* part_000:181-182 / 223-227 as if only the module, not the function to wrap,
\* were looked at
Patchable_noTargetCheck(patcher, find) == patcher = "ok" /\ find # "none"

\* part_000:181-182 / 223-227: whether patcher.after is reached
Patchable(patcher, find) == patcher = "ok" /\ find \in {"direct", "default", "render"}

\* part_000:292-318 as if a missing media overlay ended onEnable
PatchedSurfaces_overlayFirst(patcher, overlay, embed) ==
    IF ~Patchable(patcher, overlay) THEN <<>>
    ELSE <<"overlay">> \o (IF Patchable(patcher, embed) THEN <<"embed">> ELSE <<>>)

\* part_000:292-318: the surfaces onEnable patches, in the order it stores
\* their handles
PatchedSurfaces(patcher, overlay, embed) ==
    (IF Patchable(patcher, overlay) THEN <<"overlay">> ELSE <<>>)
        \o (IF Patchable(patcher, embed) THEN <<"embed">> ELSE <<>>)

\* part_000:278-321
OnEnable_overlay ==
    /\ loaded = "overlay"
    /\ Enabling
    /\ \E patcher \in PatcherLoads, overlay \in OverlayFinds, embed \in EmbedFinds :
         IF patcher = "throws"
         THEN /\ ev' = EnableEvent(<<>>, {}) @@ [env |-> <<patcher, overlay, embed>>]
              /\ UNCHANGED <<cleanups, patches>>
         ELSE LET surfaces == PatchedSurfaces(patcher, overlay, embed)
                  ids == [i \in 1..Len(surfaces) |-> Len(patches) + i]
              IN /\ patches' = patches \o [i \in 1..Len(surfaces) |-> NewPatch(surfaces[i])]
                 /\ cleanups' = cleanups \o [i \in 1..Len(surfaces) |-> Fn(ids[i])]
                 /\ ev' = EnableEvent(ids, {disables}) @@ [env |-> <<patcher, overlay, embed>>]
    /\ UNCHANGED <<unpatch, favCache, actCache>>

\* part_000:328-338
OnDisable_overlay ==
    /\ loaded = "overlay"
    /\ Disabling
    /\ RunCleanups
    /\ UNCHANGED <<unpatch, favCache, actCache>>

-----------------------------------------------------------------------------
(* part_000 (action-sheet plugin): lifecycle *)

\* part_000:546: the exported function names tried, in order
Candidates_actions == <<"getActions", "buildActions", "default">>

\* which of them the MessageActions module exports as a function
ActionsShapes == {{"getActions"}, {"buildActions", "default"}, {"default"}, {}}

ActionsModule(shape, gen) == Mod([k \in shape |-> Fn(k)], gen)

\* part_000:385-393: <<the module returned, the cache afterwards>>
getMessageActionsModule(cache, outcome, shape, gen) ==
    IF Truthy(cache) THEN <<cache, cache>>
    ELSE LET r == Lookup(outcome, ActionsModule(shape, gen)) IN
         IF r.threw THEN <<cache, cache>> ELSE <<r.val, r.val>>

\* part_000:546-554: the number of the first candidate that is a function, or 0
PatchKey(mod) ==
    IF \E i \in 1..Len(Candidates_actions) : IsFunction(Get(mod, Candidates_actions[i]))
    THEN CHOOSE i \in 1..Len(Candidates_actions) :
            /\ IsFunction(Get(mod, Candidates_actions[i]))
            /\ \A j \in 1..(i-1) : ~IsFunction(Get(mod, Candidates_actions[j]))
    ELSE 0

\* part_000:527-616 and 622-625: onLoad is applyPatch
OnLoad ==
    /\ loaded = "actions"
    /\ Enabling
    /\ \E outcome \in LookupOutcomes, shape \in ActionsShapes, patcher \in BOOLEAN :
         LET g == getMessageActionsModule(actCache, outcome, shape, disables)
             mod == g[1]
         IN /\ actCache' = g[2]
            /\ IF Truthy(mod) /\ patcher /\ PatchKey(mod) # 0
               THEN /\ patches' = PatcherAfter(patches, "actionSheet")
                    /\ unpatch' = Fn(Len(patches) + 1)
                    /\ ev' = EnableEvent(<<Len(patches) + 1>>, {mod.gen})
               ELSE /\ UNCHANGED <<patches, unpatch>>
                    /\ ev' = EnableEvent(<<>>, IF Truthy(mod) THEN {mod.gen} ELSE {})
    /\ UNCHANGED <<cleanups, favCache>>

\* part_000:627-636: the call of unpatch is not guarded; when it throws, the
\* exception leaves onUnload and the lines after it do not run
OnUnload ==
    /\ loaded = "actions"
    /\ Disabling
    /\ IF IsFunction(unpatch)
       THEN \E throws \in BOOLEAN :
              /\ patches' = InvokeHandles(patches, {unpatch.c}, IF throws THEN {unpatch.c} ELSE {})
              /\ IF throws
                 THEN /\ UNCHANGED <<unpatch, favCache, actCache>>
                      /\ ev' = DisableEvent(TRUE, <<unpatch.c>>, {unpatch.c})
                 ELSE /\ unpatch' = Null
                      /\ favCache' = Null
                      /\ actCache' = Null
                      /\ ev' = DisableEvent(FALSE, <<unpatch.c>>, {})
       ELSE /\ favCache' = Null
            /\ actCache' = Null
            /\ ev' = DisableEvent(FALSE, <<>>, {})
            /\ UNCHANGED <<unpatch, patches>>
    /\ UNCHANGED cleanups

-----------------------------------------------------------------------------
(* Host calls of the patched functions, and taps *)

Reply == Obj([key |-> U("reply")])

Copy == Obj([key |-> U("copy")])

WithOptions == Obj([props |-> Obj([options |-> Arr(<<Reply>>)])])

R_array == Arr(<<Reply, Copy>>)

R_empty == Arr(<<>>)

R_items == Obj([items |-> Arr(<<Reply>>), actions |-> Arr(<<Copy>>)])

R_actions == Obj([actions |-> Arr(<<Reply>>)])

R_options == Obj([props |-> Obj([options |-> Arr(<<Reply>>), children |-> Arr(<<WithOptions>>)])])

R_children == Obj([props |-> Obj([children |-> Arr(<<Null, Obj([props |-> Obj(<<>>)]), WithOptions, WithOptions>>)])])

R_other == Obj([title |-> U("sheet")])

\* every return-value shape of the action-sheet builder
AllRets == {R_array, R_empty, R_items, R_actions, R_options, R_children, R_other, Null}

M_image == MessageOf(<<A_png>>, <<>>)

M_gifv == MessageOf(<<>>, <<E_gifv>>)

M_none == MessageOf(<<A_text>>, <<E_link>>)

ShapeMessages == {M_image, M_gifv, M_none, Obj([message |-> M_image]), Obj([message |-> M_none])}

\* (args[0], return value) of the action-sheet builder: every host message
\* with a list returned, and every return shape with a few messages
SheetCalls == (HostMessages \X {R_array}) \cup (ShapeMessages \X AllRets)

SmallSheetCalls == {M_image, M_gifv, M_none} \X {R_array}

P_full == Obj([src |-> U("ps.png"), url |-> U("s.png"), width |-> N(40), height |-> N(30)])

P_video == Obj([proxyURL |-> U("pw.mp4"), url |-> U("w.mp4"), width |-> N(40), height |-> N(30),
                video |-> B(TRUE)])

P_nosize == Obj([url |-> U("z.png"), isVideo |-> B(TRUE)])

\* args[0] of renderOverlayContent
OverlayCalls == {P_full, P_video, P_nosize, Obj(<<>>), Undef}

E_nosize == Obj([type |-> U("image"), image |-> Obj([url |-> U("k.png")])])

\* args[0] of the embed renderer
EmbedCalls == HostEmbeds \cup {Obj([embed |-> e]) : e \in HostEmbeds} \cup {E_nosize, Undef}

Tree == U("tree")

\* the host is between UI events
Idle == ev.kind \in {"none", "enable", "disable"}

HookEvent(hook, arg0, ret, out) == [kind |-> "hook", hook |-> hook, arg0 |-> arg0, ret |-> ret, out |-> out]

\* the host calls the patched action-sheet builder of index.ts
Hook_index(calls) ==
    /\ loaded = "index" /\ Idle /\ Installed("actionSheet")
    /\ \E c \in calls : ev' = HookEvent("index", c[1], c[2], afterHook_index(c[1], c[2]))
    /\ UNCHANGED <<loaded, lifecycleVars>>

\* the host calls the patched action-sheet builder of part_000
Hook_actions(calls) ==
    /\ loaded = "actions" /\ Idle /\ Installed("actionSheet")
    /\ \E c \in calls : ev' = HookEvent("actions", c[1], c[2], afterActions(c[1], c[2]))
    /\ UNCHANGED <<loaded, lifecycleVars>>

\* the host renders a media overlay
Hook_overlay(calls) ==
    /\ loaded = "overlay" /\ Idle /\ Installed("overlay")
    /\ \E a \in calls : ev' = HookEvent("overlay", a, Tree, afterMediaRender(a, Tree))
    /\ UNCHANGED <<loaded, lifecycleVars>>

\* the host renders an embed
Hook_embed(calls) ==
    /\ loaded = "overlay" /\ Idle /\ Installed("embed")
    /\ \E a \in calls : ev' = HookEvent("embed", a, Tree, afterEmbedRender(a, Tree))
    /\ UNCHANGED <<loaded, lifecycleVars>>

TapEvent(handler, target, res) == [kind |-> "tap", handler |-> handler, target |-> target, res |-> res]

\* the favourite item of the sheet that is showing
ShownItem == ev.out.added[1]

SheetShows(hook) == ev.kind = "hook" /\ ev.hook = hook /\ ~ev.out.threw /\ ev.out.added # <<>>

Envs_index == [fav : LookupOutcomes, shape : ModuleShapes, call : {"ok", "throws"}, os : {"android", "ios"}]

\* index.ts:277: the user presses the favourite item
Tap_index ==
    /\ SheetShows("index")
    /\ LET mediaList == Get(ShownItem, "onPress").c IN
       \E res \in {favouriteMedia(mediaList, env, disables) : env \in Envs_index} :
         ev' = TapEvent("index", mediaList[1], res)
    /\ UNCHANGED <<loaded, lifecycleVars>>

Envs_actions == [fav : LookupOutcomes, shape : ModuleShapes, call : {"ok", "throws"}, toast : LookupOutcomes]

\* part_000:476: the user presses the favourite item
Tap_actions ==
    /\ SheetShows("actions")
    /\ LET media == Get(ShownItem, "onPress").c
           api(env) == getFavouritesAPI(favCache, env.fav, env.shape, disables)
       IN \E r \in {<<api(env)[2], onPress_actions(media, api(env)[1], env)>> : env \in Envs_actions} :
            /\ favCache' = r[1]
            /\ ev' = TapEvent("actions", media, r[2])
    /\ UNCHANGED <<loaded, cleanups, unpatch, actCache, patches, disables, enables, lastOp>>

Envs_accessory == [byName : LookupOutcomes, byDisplayName : LookupOutcomes, byProps : LookupOutcomes,
                   shape : ModuleShapes, call : {"ok", "throws"}]

\* the accessory on screen and its favourited flag
AccessoryShown ==
    \/ ev.kind = "hook" /\ ev.hook \in {"overlay", "embed"} /\ ev.out.added # <<>>
         /\ AccessoryRenders(ev.out.added[1])
    \/ ev.kind = "tap" /\ ev.handler = "accessory"

\* part_000:157: the user presses the star of an accessory.  A mounted
\* accessory starts with favourited = false (useState(false), line 122);
\* taps counts the presses since it was mounted.
Tap_accessory ==
    /\ AccessoryShown
    /\ LET a == IF ev.kind = "hook" THEN ev.out.added[1] ELSE ev.target
           favourited == IF ev.kind = "hook" THEN FALSE ELSE ev.favourited
           taps == IF ev.kind = "hook" THEN 0 ELSE ev.taps
       IN /\ taps < MaxTaps
          /\ \E r \in {handlePress(a, favourited, env, disables) : env \in Envs_accessory} :
               ev' = TapEvent("accessory", a, r[1]) @@ [favourited |-> r[2], taps |-> taps + 1]
    /\ UNCHANGED <<loaded, lifecycleVars>>

\* the sheet or the preview closes
Dismiss ==
    /\ ev.kind \in {"hook", "tap"}
    /\ ev' = NoEvent
    /\ UNCHANGED <<loaded, lifecycleVars>>

-----------------------------------------------------------------------------
(* Specifications *)

Next ==
    \/ OnEnable_index
    \/ OnDisable_index
    \/ OnEnable_overlay
    \/ OnDisable_overlay
    \/ OnLoad
    \/ OnUnload
    \/ Hook_index(SmallSheetCalls)
    \/ Hook_actions(SmallSheetCalls)
    \/ Hook_overlay({P_full, P_nosize})
    \/ Hook_embed({E_gifv, E_link})
    \/ Tap_index
    \/ Tap_actions
    \/ Tap_accessory
    \/ Dismiss

\* the plugin's life: enable, disable, the patched functions, taps
Spec == Init /\ [][Next]_vars

\* the state after one enable that found its modules and patched
InitMedia ==
    /\ loaded \in Plugins
    /\ cleanups = CASE loaded = "index" -> <<Fn(1)>>
                    [] loaded = "overlay" -> <<Fn(1), Fn(2)>>
                    [] OTHER -> <<>>
    /\ unpatch = IF loaded = "actions" THEN Fn(1) ELSE Null
    /\ favCache = Null
    /\ actCache = IF loaded = "actions" THEN ActionsModule({"getActions"}, 0) ELSE Null
    /\ patches = IF loaded = "overlay" THEN <<NewPatch("overlay"), NewPatch("embed")>>
                 ELSE <<NewPatch("actionSheet")>>
    /\ disables = 0
    /\ enables = 1
    /\ lastOp = "enable"
    /\ ev = NoEvent

NextMedia ==
    \/ Hook_index(SheetCalls)
    \/ Hook_actions(SheetCalls)
    \/ Hook_overlay(OverlayCalls)
    \/ Hook_embed(EmbedCalls)
    \/ Tap_index
    \/ Tap_actions
    \/ Tap_accessory
    \/ Dismiss

\* the enabled plugin under every call of the patched functions
SpecMedia == InitMedia /\ [][NextMedia]_vars

-----------------------------------------------------------------------------
(* What the claims speak of, stated apart from the code *)

\* the elements of a list, none when the value is no list
ListOf(v) == IF IsArray(v) THEN v.a ELSE <<>>

\* the MIME type of an attachment's content_type: parameters cut, lowercased
MimeOf(att) ==
    IF IsString(Get(att, "content_type")) THEN toLowerCase(splitFirst(Get(att, "content_type").s))
    ELSE <<>>

QualifyingAttachment(att) ==
    startsWith(MimeOf(att), ImagePrefix) \/ startsWith(MimeOf(att), VideoPrefix)

QualifyingEmbed(e) == Truthy(Get(e, "image")) \/ Truthy(Get(e, "video"))

Attachments(msg) == ListOf(OptGet(msg, "attachments"))

Embeds(msg) == ListOf(OptGet(msg, "embeds"))

HasQualifyingAttachment(msg) ==
    \E i \in 1..Len(Attachments(msg)) : QualifyingAttachment(Attachments(msg)[i])

HasQualifyingEmbed(msg) ==
    \E i \in 1..Len(Embeds(msg)) : QualifyingEmbed(Embeds(msg)[i])

HasMedia(msg) == HasQualifyingAttachment(msg) \/ HasQualifyingEmbed(msg)

\* the message of the action-sheet call that ev records: args[0], or
\* args[0].message where the host wraps it (part_000 reads both)
CallMessage ==
    IF ev.hook = "actions" /\ Truthy(OptGet(ev.arg0, "message")) THEN Get(ev.arg0, "message")
    ELSE ev.arg0

SheetHook == ev.kind = "hook" /\ ev.hook \in {"index", "actions"}

\* C1: for a message with no image/video attachment (MIME prefix, compared as
\* section 8 of the spec compares it) and no embed with an image or video
\* field, each action-sheet after-hook returns the original return value:
\* the same elements in the same order, nothing appended.
C1_NoMediaUnchanged ==
    (SheetHook /\ ~HasMedia(CallMessage))
        => (~ev.out.threw /\ ev.out.val = ev.ret /\ ev.out.added = <<>>)

\* C1's case: a message with an attachment that is no image or video and an
\* embed without media went through the hook of index.ts, which returned the
\* list it was given
C1_Witness ==
    /\ SheetHook /\ ev.hook = "index"
    /\ ev.arg0 = M_none /\ ev.ret = R_array
    /\ ~ev.out.threw /\ ev.out.val = R_array

\* the item the precedence of section 4.2 picks: the first attachment that
\* qualifies; else, of the first embed with media, the video of a gifv embed,
\* else its video field, else its image field.  urls: the URLs that name it.
FirstOf(n, P(_)) == CHOOSE i \in 1..n : P(i) /\ \A j \in 1..(i-1) : ~P(j)

ExpectedMedia(msg) ==
    IF HasQualifyingAttachment(msg)
    THEN LET att == Attachments(msg)[FirstOf(Len(Attachments(msg)),
                        LAMBDA i : QualifyingAttachment(Attachments(msg)[i]))]
         IN [urls |-> {Get(att, "url")}, isVideo |-> startsWith(MimeOf(att), VideoPrefix)]
    ELSE LET e == Embeds(msg)[FirstOf(Len(Embeds(msg)), LAMBDA i : QualifyingEmbed(Embeds(msg)[i]))]
         IN IF Truthy(Get(e, "video"))
            THEN [urls |-> {Get(Get(e, "video"), "url"), Get(e, "url")}, isVideo |-> TRUE]
            ELSE [urls |-> {Get(Get(e, "image"), "url")}, isVideo |-> FALSE]

\* the descriptor a favourite item favourites when pressed
PressedMedia(item) ==
    LET c == Get(item, "onPress").c IN
    IF ev.hook = "index" THEN c[1] ELSE c

IsFavCall(c) == c.fn = "addToFavorites"

IsShareCall(c) == c.fn = "share"

CallsOf(P(_)) == {i \in 1..Len(ev.res.calls) : P(ev.res.calls[i])}

FormatOf(isVideo) == IF isVideo THEN FormatVideo ELSE FormatImage

\* C2: for a message with qualifying media and a list returned by the
\* builder, one run of the action-sheet after-hook appends exactly one
\* favourite item, which favourites the item the precedence of section 4.2
\* picks; the press hands that item's URL and format to addToFavorites.
C2_FirstQualifyingFavourited ==
    /\ (SheetHook /\ HasMedia(CallMessage) /\ IsArray(ev.ret))
         => /\ ~ev.out.threw
            /\ Len(ev.out.added) = 1
            /\ ev.out.val = Push(ev.ret, ev.out.added[1])
            /\ PressedMedia(ev.out.added[1]).url \in ExpectedMedia(CallMessage).urls
            /\ PressedMedia(ev.out.added[1]).isVideo = ExpectedMedia(CallMessage).isVideo
    /\ (ev.kind = "tap" /\ ev.handler \in {"index", "actions"})
         => \A i \in CallsOf(IsFavCall) :
               /\ ev.res.calls[i].arg.url = ev.target.url
               /\ ev.res.calls[i].arg.format = FormatOf(ev.target.isVideo)

\* C3: in both extractors an attachment with a content_type qualifies exactly
\* when its MIME type, lowercased and with the parameters after ';' cut,
\* starts with image/ or video/, and it is a video exactly for video/.
C3_CaseInsensitivePrefix ==
    (/\ ev.kind = "extract"
     /\ Len(Attachments(ev.msg)) = 1 /\ Embeds(ev.msg) = <<>>
     /\ ~Nullish(Attachments(ev.msg)[1])
     /\ IsString(Get(Attachments(ev.msg)[1], "content_type")))
        => LET att == Attachments(ev.msg)[1]
               found == IF loaded = "index" THEN ev.out.val
                        ELSE IF ev.out.val = Null THEN <<>> ELSE <<ev.out.val>>
           IN /\ ~ev.out.threw
              /\ QualifyingAttachment(att) <=> (Len(found) = 1)
              /\ Len(found) = 1 => (found[1].isVideo <=> startsWith(MimeOf(att), VideoPrefix))

\* the first embed with media is a gifv embed with a video field, and no
\* attachment qualifies
GifvFirst(msg) ==
    /\ ~HasQualifyingAttachment(msg)
    /\ HasQualifyingEmbed(msg)
    /\ LET e == Embeds(msg)[FirstOf(Len(Embeds(msg)), LAMBDA i : QualifyingEmbed(Embeds(msg)[i]))]
       IN Get(e, "type") = Gifv /\ Truthy(Get(e, "video"))

\* the embed of an embed-renderer call: args[0].embed, or args[0]
CallEmbed == IF Truthy(OptGet(ev.arg0, "embed")) THEN Get(ev.arg0, "embed") ELSE ev.arg0

\* C4: the descriptor that favourites a gifv embed with a video field has
\* isVideo = TRUE, also when the embed has an image field: in the items of
\* both action-sheet hooks, in the accessory of the embed renderer, and in
\* the format handed to addToFavorites (VIDEO).
C4_GifvIsVideo ==
    /\ (SheetHook /\ GifvFirst(CallMessage) /\ ~ev.out.threw /\ ev.out.added # <<>>)
         => PressedMedia(ev.out.added[1]).isVideo
    /\ (/\ ev.kind = "hook" /\ ev.hook = "embed" /\ ev.out.added # <<>>
        /\ Get(CallEmbed, "type") = Gifv /\ Truthy(Get(CallEmbed, "video")))
         => ev.out.added[1].video
    /\ (ev.kind = "tap" /\ ev.handler \in {"index", "actions"})
         => \A i \in CallsOf(IsFavCall) : ev.res.calls[i].arg.format = FormatOf(ev.target.isVideo)
    /\ (ev.kind = "tap" /\ ev.handler = "accessory")
         => \A i \in CallsOf(IsFavCall) : ev.res.calls[i].arg.format = FormatOf(ev.target.video)

\* C4's case: the embed renderer ran on a gifv embed that has both a video
\* and an image field, and the accessory it rendered is a video
C4_Witness ==
    /\ ev.kind = "hook" /\ ev.hook = "embed"
    /\ CallEmbed = E_gifv /\ Truthy(Get(E_gifv, "image"))
    /\ ev.out.added # <<>> /\ ev.out.added[1].video

\* C6: when the host's addToFavorites throws during a tap, the handler then
\* invokes the share flow with the media's URL, and no exception leaves the
\* handler; for every favourite handler.
C6_ThrowFallsBackToShare ==
    (ev.kind = "tap" /\ ev.res.api = "threw")
        => /\ ~ev.res.threw
           /\ \E i \in CallsOf(IsShareCall) :
                 /\ ev.res.calls[i].message = ev.target.url
                 /\ \E j \in CallsOf(IsFavCall) : j < i

\* a descriptor field that is absent from the input holds the default
Defaulted(v) == v.t # "undef"

\* C7: the extractor never throws, whatever the message-like input, and the
\* descriptors it returns hold "" / 0 / false where the input has no value.
C7_ExtractorTotal ==
    ev.kind = "extract"
        => /\ ~ev.out.threw
           /\ LET found == IF loaded = "index" THEN ev.out.val
                           ELSE IF ev.out.val = Null THEN <<>> ELSE <<ev.out.val>>
              IN \A i \in 1..Len(found) :
                    /\ Defaulted(found[i].url)
                    /\ loaded = "actions" => Defaulted(found[i].width) /\ Defaulted(found[i].height)

-----------------------------------------------------------------------------
(* Lifecycle claims *)

AllPatches == 1..Len(patches)

\* enable, then disable, and nothing else so far
FirstDisable == ev.kind = "disable" /\ enables = 1 /\ disables = 1

\* enable, disable, disable, and nothing else so far
SecondDisable == ev.kind = "disable" /\ enables = 1 /\ disables = 2 /\ ev.prev = "disable"

\* C5: after enable then disable, every handle the enable collected has been
\* invoked exactly once and no patch of the plugin is left installed (but one
\* whose handle threw instead of removing it); a second disable right after
\* invokes no handle and does not throw.
C5_DisableOnce ==
    /\ FirstDisable
         => \A i \in AllPatches :
               /\ patches[i].invoked = 1
               /\ patches[i].installed => i \in ev.throwers
    /\ SecondDisable
         => /\ ~ev.threw
            /\ ev.invoked = <<>>
            /\ \A i \in AllPatches : patches[i].invoked = 1

\* a module reference is used: enable patches it, or a tap calls into it
UsedGens ==
    IF ev.kind = "enable" THEN ev.gens
    ELSE IF ev.kind = "tap" THEN {ev.res.calls[i].gen : i \in CallsOf(IsFavCall)}
    ELSE {}

\* C8: once a disable has been called, enable and the favourite taps use only
\* module references resolved after the latest disable, also when an unpatch
\* handle threw during it.
C8_NoStaleModule == \A g \in UsedGens : g = disables

\* C9: a disable in which a stored handle throws still invokes every stored
\* handle, lets no exception out, and leaves the handle list empty and the
\* module caches cleared.
C9_DisableSwallows ==
    ev.kind = "disable"
        => /\ ~ev.threw
           /\ cleanups = <<>> /\ unpatch = Null
           /\ favCache = Null /\ actCache = Null

\* the handles the enable that ev records has stored, and their surfaces
NewSurfaces == {patches[ev.stored[i]].surface : i \in 1..Len(ev.stored)}

OverlayFound == ev.env[2] \in {"direct", "default"}

EmbedFound == ev.env[3] \in {"render", "default"}

\* C10: in enable of the overlay/embed plugin each surface is patched exactly
\* when its own module and target are found (the patcher being there),
\* whatever becomes of the other; enable does not throw, and the handles it
\* stores are those of the surfaces it patched, one each, at the end of
\* cleanups.
C10_SurfacesIndependent ==
    (ev.kind = "enable" /\ loaded = "overlay")
        => /\ ~ev.threw
           /\ ev.env[1] = "ok" => /\ ("overlay" \in NewSurfaces <=> OverlayFound)
                                  /\ ("embed" \in NewSurfaces <=> EmbedFound)
           /\ Cardinality(NewSurfaces) = Len(ev.stored)
           /\ Len(ev.stored) <= Len(cleanups)
           /\ \A i \in 1..Len(ev.stored) :
                 /\ cleanups[Len(cleanups) - Len(ev.stored) + i] = Fn(ev.stored[i])
                 /\ patches[ev.stored[i]].installed

\* C10's case: the media overlay was not found, the embed renderer was, and
\* enable stored the one handle of the embed patch
C10_Witness ==
    /\ ev.kind = "enable" /\ loaded = "overlay"
    /\ ev.env = <<"ok", "none", "render">>
    /\ NewSurfaces = {"embed"}
    /\ Len(cleanups) >= 1 /\ patches[cleanups[Len(cleanups)].c].surface = "embed"

-----------------------------------------------------------------------------
(* Installation claims *)

\* how many retained unpatch handles name patch i
HandleCount(i) ==
    Cardinality({k \in 1..Len(cleanups) : cleanups[k] = Fn(i)})
        + (IF unpatch = Fn(i) THEN 1 ELSE 0)

\* the step is a call of enable
EnableStep == enables' = enables + 1

\* the patches the enable call of this step installed
InstalledNow == (Len(patches) + 1)..Len(patches')

\* the surfaces that enable recorded in ev tried to patch and did not find:
\* the module lookup gave nothing, or the module lacks the function to wrap
MissingSurfaces ==
    CASE loaded = "overlay" ->
            (IF ev.threw \/ OverlayFound THEN {} ELSE {"overlay"})
                \cup (IF ev.threw \/ EmbedFound THEN {} ELSE {"embed"})
      [] loaded = "index" -> IF ev.gens = {} THEN {"actionSheet"} ELSE {}
      [] OTHER ->
            IF \/ ev.gens = {}
               \/ ~\E k \in DOMAIN actCache.f :
                      k \in {"getActions", "buildActions", "default"} /\ IsFunction(actCache.f[k])
            THEN {"actionSheet"} ELSE {}

\* C11: every patch an enable call installs comes with exactly one unpatch
\* handle, stored where disable finds it; an attempt whose module or function
\* is not found installs no patch on that surface, and the call stores no
\* null entry and does not throw.
C11_OneHandlePerInstall ==
    [][EnableStep =>
        /\ ev'.kind = "enable" /\ ~ev'.threw
        /\ Len(patches') >= Len(patches)
        /\ \A i \in 1..Len(patches) : patches'[i] = patches[i]
        /\ Len(ev'.stored) = Cardinality(InstalledNow)
        /\ \A i \in InstalledNow :
              /\ patches'[i].installed
              /\ HandleCount(i)' = 1
              /\ patches'[i].surface \notin MissingSurfaces'
        /\ \A k \in 1..Len(cleanups') : IsFunction(cleanups'[k])
        /\ Len(cleanups') = Len(cleanups) + (IF loaded = "actions" THEN 0 ELSE Cardinality(InstalledNow))
        /\ InstalledNow = {} => UNCHANGED <<cleanups, unpatch>>
    ]_vars

\* C11's case: enable of the overlay plugin found a media-overlay module
\* without renderOverlayContent and an embed renderer; it installed the one
\* patch of the embed renderer and stored the one handle of it
C11_Witness ==
    /\ ev.kind = "enable" /\ loaded = "overlay"
    /\ ev.env = <<"ok", "notarget", "default">>
    /\ Len(ev.stored) = 1
    /\ HandleCount(ev.stored[1]) = 1
    /\ patches[ev.stored[1]].installed

-----------------------------------------------------------------------------
(* Tap claims *)

\* C12: when the host's favourites API is unavailable during a tap (the
\* module is not found, or it has no addToFavorites function), the handler
\* invokes the share flow with the media's URL and completes without an
\* exception; for the handlers of the action-sheet items (favouriteMedia of
\* index.ts, onPress of part_000).
C12_UnavailableShares ==
    (ev.kind = "tap" /\ ev.handler \in {"index", "actions"} /\ ev.res.api = "unavailable")
        => /\ ~ev.res.threw
           /\ CallsOf(IsFavCall) = {}
           /\ \E i \in CallsOf(IsShareCall) : ev.res.calls[i].message = ev.target.url

-----------------------------------------------------------------------------
(* Lifecycle invariants *)

\* a patch the plugin installed that no handle call has touched yet
Pending(i) == patches[i].installed /\ patches[i].invoked = 0

\* C13: after any sequence of enable and disable calls, enable twice in a row
\* included, every patch the plugin installed and has not yet unpatched has
\* exactly one retained unpatch handle; hence after a disable no patch is
\* left whose handle was never invoked.
C13_EveryPatchHasHandle ==
    /\ \A i \in AllPatches : Pending(i) => HandleCount(i) = 1
    /\ ev.kind = "disable" => \A i \in AllPatches : ~Pending(i)

-----------------------------------------------------------------------------
(* Return-value shapes *)

\* the hook's own extractor found media in the message of the call
MediaFound ==
    LET m == extractMedia(ev.hook, CallMessage)
    IN ~m.threw /\ (IF ev.hook = "index" THEN Len(m.val) > 0 ELSE m.val # Null)

\* v with item appended to the list it holds in field k
AppendedIn(v, k, item) == SetField(v, k, Push(Get(v, k), item))

\* the return values the rule of section 4 allows for ret and item: item
\* appended to ret when ret is a list; otherwise appended to a list in the
\* sub-field items, actions or options, or to the options list of a
\* props/children tree (the props, or a child's props)
AllowedResults(ret, item) ==
    IF IsArray(ret) THEN {Push(ret, item)}
    ELSE LET props == Get(ret, "props")
             children == ListOf(Get(props, "children"))
             optionHolders == {i \in 1..Len(children) : IsArray(Get(Get(children[i], "props"), "options"))}
         IN {AppendedIn(ret, k, item) : k \in {f \in {"items", "actions", "options"} : IsArray(Get(ret, f))}}
            \cup (IF IsArray(Get(props, "options"))
                  THEN {SetField(ret, "props", AppendedIn(props, "options", item))}
                  ELSE {})
            \cup {SetField(ret, "props", SetField(props, "children",
                      Arr([children EXCEPT ![i] =
                              SetField(@, "props", AppendedIn(Get(@, "props"), "options", item))])))
                    : i \in optionHolders}

\* C14: for a message with media, the action-sheet after-hook appends the one
\* favourite item to the return value when that is a list, otherwise to a
\* list in items, actions, options or a props/children tree; when there is
\* no such list it returns the original value, nothing appended, nothing
\* changed.
C14_AppendsWhereListIs ==
    (SheetHook /\ MediaFound)
        => /\ ~ev.out.threw
           /\ LET probe == Obj([label |-> FavouriteLabel]) IN
              IF AllowedResults(ev.ret, probe) = {}
              THEN ev.out.val = ev.ret /\ ev.out.added = <<>>
              ELSE /\ Len(ev.out.added) = 1
                   /\ ev.out.val \in AllowedResults(ev.ret, ev.out.added[1])

-----------------------------------------------------------------------------
(* Ordering inside disable *)

\* a disable call of the plugin that keeps caches has just cleared them
CachesCleared ==
    loaded = "actions" /\ ev.kind = "disable" /\ favCache = Null /\ actCache = Null

\* C15: the module caches are cleared only after the unpatch handles have
\* been invoked: in no state are the caches cleared by disable while a patch
\* of the plugin is still installed with its handle not yet invoked.
C15_ClearedOnlyAfterUnpatch ==
    CachesCleared => \A i \in AllPatches : ~Pending(i)

-----------------------------------------------------------------------------
(* One tap, one attempt *)

\* the host calls an event made: those of a tap, none otherwise
HostCalls == IF ev.kind = "tap" THEN ev.res.calls ELSE <<>>

\* C16: one favourite tap makes at most one addToFavorites call and at most
\* one share-flow call, the share flow only when addToFavorites did not
\* return normally in that tap and never before it; an event that is no tap
\* makes no host call.
C16_OneShot ==
    /\ ev.kind = "tap"
         => /\ Cardinality(CallsOf(IsFavCall)) <= 1
            /\ Cardinality(CallsOf(IsShareCall)) <= 1
            /\ CallsOf(IsShareCall) # {} => ev.res.api # "ok"
            /\ \A i \in CallsOf(IsShareCall), j \in CallsOf(IsFavCall) : j < i
            /\ ev.res.api \in {"ok", "threw"} <=> CallsOf(IsFavCall) # {}
    /\ ev.kind # "tap" => HostCalls = <<>>

\* C16's case: a tap in which addToFavorites was called once and threw, and
\* the share flow was then invoked once
C16_Witness ==
    /\ ev.kind = "tap" /\ ev.handler = "index" /\ ev.res.api = "threw"
    /\ Cardinality(CallsOf(IsFavCall)) = 1
    /\ Cardinality(CallsOf(IsShareCall)) = 1

-----------------------------------------------------------------------------
(* The accessory's local flag *)

AccessoryTap == ev.kind = "tap" /\ ev.handler = "accessory"

\* C17: every tap on the accessory flips its favourited flag once, whether
\* the host's addToFavorites returned, threw or was unavailable: starting
\* from false, after n taps the flag is true exactly when n is odd.
C17_FlagParity ==
    AccessoryTap => (ev.favourited <=> ev.taps % 2 = 1)

\* C17's case: the second tap on an accessory, in which addToFavorites
\* threw, has flipped the flag back to false
C17_Witness ==
    /\ AccessoryTap /\ ev.taps = 2
    /\ ev.res.api = "threw"
    /\ ~ev.favourited

====
